---- MODULE Spec2Model ----
(***************************************************************************)
(* The property binder of the view compiler                                *)
(* (modules/@angular/compiler/src/view_compiler/property_binder.ts).       *)
(*                                                                         *)
(* The state is the CompileView the binder writes into: its binding list,  *)
(* its field list and the statement lists of the methods it appends to.    *)
(* One action per exported function: bindRenderText, bindRenderInputs,     *)
(* bindDirectiveHostProps and bindDirectiveInputs.  Generated expressions  *)
(* and statements are records shaped after the output AST; names are the   *)
(* strings the code builds.                                                *)
(*                                                                         *)
(* The expression converter is a collaborator: what it returns for a       *)
(* parsed expression (no expression, the number of temporaries, whether a  *)
(* value unwrapper is needed) is part of the drawn input, and the lowered  *)
(* expression is a token that carries the bindingIndex it was built with.  *)
(* The context and the name resolver are only forwarded to the converter   *)
(* and leave no other trace in the output, so they are not threaded.       *)
(* resetDebugInfo belongs to CompileMethod, outside this file; it appends   *)
(* none of the binder's statements and is not modelled.  The bindings of   *)
(* the view sit on one element, with one fixed list of event listeners.    *)
(***************************************************************************)
EXTENDS Integers, Sequences, FiniteSets, TLC

VARIABLES
  view,        \* the CompileView being written; view.slots is history: the value
               \* of the local bindingIndex of every binding round, in order
  thrown,      \* the message of the error that aborted generation, "" if none
  directives   \* history: the directives handed to bindDirectiveInputs, in order

vars == <<view, thrown, directives>>

(* ------------------------------ bounds -------------------------------- *)

\* most bindings on the view, a bindDirectiveInputs call for a directive
\* without inputs counting as one
MaxRegistrations == 2
\* the larger of the two temporary counts the converter reports
MaxTemps == 2

(* --------------------------- output AST ------------------------------- *)

JsNull == [op |-> "JsNull"]

variable(name) == [op |-> "ReadVar", name |-> name]

THIS_EXPR == variable("this")

NULL_EXPR == [op |-> "Literal", value |-> "null"]

literal(value) == [op |-> "Literal", value |-> value]

importExpr(id) == [op |-> "External", name |-> id]

prop(receiver, name) == [op |-> "ReadProp", receiver |-> receiver, name |-> name]

key(receiver, index) == [op |-> "ReadKey", receiver |-> receiver, index |-> index]

callMethod(receiver, name, args) ==
  [op |-> "InvokeMethod", receiver |-> receiver, name |-> name, args |-> args]

callFn(fn, args) == [op |-> "InvokeFunction", fn |-> fn, args |-> args]

equals(lhs, rhs) == [op |-> "Binary", operator |-> "==", lhs |-> lhs, rhs |-> rhs]

or(lhs, rhs) == [op |-> "Binary", operator |-> "||", lhs |-> lhs, rhs |-> rhs]

plus(lhs, rhs) == [op |-> "Binary", operator |-> "+", lhs |-> lhs, rhs |-> rhs]

isBlank(e) == equals(e, NULL_EXPR)

conditional(condition, trueCase, falseCase) ==
  [op |-> "Conditional", condition |-> condition,
   trueCase |-> trueCase, falseCase |-> falseCase]

writeProp(receiver, name, value) ==
  [op |-> "WriteProp", receiver |-> receiver, name |-> name, value |-> value]

toStmt(e) == [stmt |-> "Expression", expr |-> e]

toDeclStmt(name, value, modifiers) ==
  [stmt |-> "DeclareVar", name |-> name, value |-> value, modifiers |-> modifiers]

IfStmt(condition, trueCase) ==
  [stmt |-> "If", condition |-> condition, trueCase |-> trueCase]

ClassField(name, modifiers) == [name |-> name, modifiers |-> modifiers]

(* --------------------------- collaborators ---------------------------- *)

UNINITIALIZED == importExpr("UNINITIALIZED")

checkBinding == importExpr("checkBinding")

setBindingDebugInfo == importExpr("setBindingDebugInfo")

SecurityContextId == importExpr("SecurityContext")

EMPTY_ANIMATION_STATE == "void"

throwOnChange == variable("throwOnChange")

valUnwrapper == variable("valUnwrapper")

viewUtils == prop(THIS_EXPR, "viewUtils")

\* the one element (or text node) the bindings of this view sit on
renderNode == prop(THIS_EXPR, "_el_0")

appElement == prop(THIS_EXPR, "_appEl_0")

temporaryDeclaration(bindingIndex, temporaryNumber) ==
  [stmt |-> "TemporaryDeclaration", bindingIndex |-> bindingIndex,
   temporaryNumber |-> temporaryNumber]

\* What the converter returns for a parsed expression: the AST is drawn
\* together with its lowering.
convertCdExpressionToIr(parsedExpression, bindingIndex) ==
  [expression |-> IF parsedExpression.empty THEN JsNull
                  ELSE [op |-> "Ir", bindingIndex |-> bindingIndex],
   temporaryCount |-> parsedExpression.temporaryCount,
   needsValueUnwrapper |-> parsedExpression.needsValueUnwrapper]

listenToAnimation(listener, animationTransitionVar) ==
  [stmt |-> "ListenToAnimation", eventPhase |-> listener.eventPhase,
   transition |-> animationTransitionVar]

isDefaultChangeDetectionStrategy(changeDetection) == changeDetection = "Default"

CompileBinding(node, sourceAst) == [node |-> node, sourceAst |-> sourceAst]

addStmt(v, method, s) == [v EXCEPT ![method] = Append(@, s)]

addStmts(v, method, ss) == [v EXCEPT ![method] = @ \o ss]

(* ------------------------------ inputs -------------------------------- *)

TemporaryCounts == {0, MaxTemps}

\* parsed expressions, by what the converter makes of them
EmptyAst == [empty |-> TRUE, temporaryCount |-> 0, needsValueUnwrapper |-> FALSE]

Asts ==
  {EmptyAst}
  \cup [empty : {FALSE}, temporaryCount : TemporaryCounts,
        needsValueUnwrapper : BOOLEAN]

SimpleAst == [empty |-> FALSE, temporaryCount |-> 0, needsValueUnwrapper |-> FALSE]

PropertyBindingTypes == {"Property", "Attribute", "Class", "Style", "Animation"}

KnownSecurityContexts == {"NONE", "HTML", "STYLE", "SCRIPT", "URL", "RESOURCE_URL"}

\* the six members of the enumeration and one value outside it
SecurityContexts == KnownSecurityContexts \cup {"UNKNOWN"}

BoundTextAsts == [kind : {"text"}, value : Asts]

\* unit: <<>> is an absent unit
BoundElementPropertyAst(type, securityContext, value, unit) ==
  [kind |-> "prop", name |-> "p", type |-> type,
   securityContext |-> securityContext, value |-> value, unit |-> unit]

\* Property and Animation bindings with every lowering, the other types with
\* an empty and with a plain expression, a Style binding with a unit, a
\* Property binding under every security context and an Animation binding
\* under one that sanitizes
BoundElementPropertyAsts ==
  {BoundElementPropertyAst(t, "NONE", a, <<>>) :
     <<t, a>> \in {"Property", "Animation"} \X Asts}
  \cup
  {BoundElementPropertyAst(t, "NONE", a, <<>>) :
     <<t, a>> \in PropertyBindingTypes \X {EmptyAst, SimpleAst}}
  \cup
  {BoundElementPropertyAst("Style", "NONE", SimpleAst, <<"px">>),
   BoundElementPropertyAst("Animation", "HTML", SimpleAst, <<>>)}
  \cup
  {BoundElementPropertyAst("Property", c, SimpleAst, <<>>) : c \in SecurityContexts}

BoundDirectivePropertyAsts == [kind : {"input"}, directiveName : {"value"}, value : Asts]

\* sequences over S of length at most n
RECURSIVE SeqsUpTo(_, _)
SeqsUpTo(S, n) ==
  IF n <= 0 THEN {<<>>}
  ELSE LET shorter == SeqsUpTo(S, n - 1)
       IN  shorter \cup {Append(s, x) : <<s, x>> \in shorter \X S}

DirectiveAsts(n) ==
  [isComponent : BOOLEAN, changeDetection : {"Default", "OnPush"},
   inputs : SeqsUpTo(BoundDirectivePropertyAsts, n),
   hostProperties : {<<>>}]

HostDirectiveAsts(n) ==
  [isComponent : {TRUE}, changeDetection : {"Default"}, inputs : {<<>>},
   hostProperties : SeqsUpTo(BoundElementPropertyAsts, n)]

\* the listeners of the element: an animation listener on "p", an animation
\* listener on another name and a listener that is no animation
eventListeners ==
  << [isAnimation |-> TRUE, eventName |-> "p", eventPhase |-> "done"],
     [isAnimation |-> TRUE, eventName |-> "q", eventPhase |-> "start"],
     [isAnimation |-> FALSE, eventName |-> "p", eventPhase |-> "dom"] >>

(* ----------------------------- the binder ----------------------------- *)

createBindFieldExpr(exprIndex) == prop(THIS_EXPR, "_expr_" \o ToString(exprIndex))

createCurrValueExpr(exprIndex) == variable("currVal_" \o ToString(exprIndex))

EvalResult(forceUpdate) == [forceUpdate |-> forceUpdate]

NoEvalResult == [null |-> TRUE]

\* evalCdAst with the unwrapper reset emitted ahead of the temporaries
evalCdAst_resetFirst(v, currValExpr, parsedExpression, method, bindingIndex) ==
  LET checkExpression == convertCdExpressionToIr(parsedExpression, bindingIndex)
      temps == [i \in 1..checkExpression.temporaryCount |->
                  temporaryDeclaration(bindingIndex, i - 1)]
      v1 == IF checkExpression.needsValueUnwrapper
            THEN addStmt(v, method, toStmt(callMethod(valUnwrapper, "reset", <<>>)))
            ELSE v
      v2 == addStmts(v1, method, temps)
      v3 == addStmt(v2, method,
                    toDeclStmt(currValExpr.name, checkExpression.expression, {"Final"}))
  IN  IF checkExpression.expression = JsNull
      THEN [view |-> v, result |-> NoEvalResult]
      ELSE [view |-> v3,
            result |-> IF checkExpression.needsValueUnwrapper
                       THEN EvalResult(prop(valUnwrapper, "hasWrappedValue"))
                       ELSE EvalResult(JsNull)]

\* the view after evalCdAst's statements, and what evalCdAst returns
evalCdAst(v, currValExpr, parsedExpression, method, bindingIndex) ==
  LET checkExpression == convertCdExpressionToIr(parsedExpression, bindingIndex)
      temps == [i \in 1..checkExpression.temporaryCount |->
                  temporaryDeclaration(bindingIndex, i - 1)]
      v1 == addStmts(v, method, temps)
      v2 == IF checkExpression.needsValueUnwrapper
            THEN addStmt(v1, method, toStmt(callMethod(valUnwrapper, "reset", <<>>)))
            ELSE v1
      v3 == addStmt(v2, method,
                    toDeclStmt(currValExpr.name, checkExpression.expression, {"Final"}))
  IN  IF checkExpression.expression = JsNull
      THEN [view |-> v, result |-> NoEvalResult]
      ELSE [view |-> v3,
            result |-> IF checkExpression.needsValueUnwrapper
                       THEN EvalResult(prop(valUnwrapper, "hasWrappedValue"))
                       ELSE EvalResult(JsNull)]

\* bind with the field and its initialisation emitted before the evaluation
\* result is looked at
bind_fieldBeforeCheck(v, currValExpr, fieldExpr, parsedExpression, actions, method, bindingIndex) ==
  LET ev == evalCdAst(v, currValExpr, parsedExpression, method, bindingIndex)
      evalResult == ev.result
      v1 == [ev.view EXCEPT !.fields = Append(@, ClassField(fieldExpr.name, {"Private"}))]
      v2 == addStmt(v1, "createMethod",
                    toStmt(writeProp(THIS_EXPR, fieldExpr.name, UNINITIALIZED)))
      check == callFn(checkBinding, <<throwOnChange, fieldExpr, currValExpr>>)
      condition == IF evalResult.forceUpdate # JsNull
                   THEN or(evalResult.forceUpdate, check)
                   ELSE check
  IN  IF evalResult = NoEvalResult
      THEN v2
      ELSE addStmt(v2, method,
                   IfStmt(condition,
                          actions \o <<toStmt(writeProp(THIS_EXPR, fieldExpr.name,
                                                        currValExpr))>>))

\* bind without the initialisation of the field in the create method
bind_noInit(v, currValExpr, fieldExpr, parsedExpression, actions, method, bindingIndex) ==
  LET ev == evalCdAst(v, currValExpr, parsedExpression, method, bindingIndex)
      evalResult == ev.result
      v1 == [ev.view EXCEPT !.fields = Append(@, ClassField(fieldExpr.name, {"Private"}))]
      check == callFn(checkBinding, <<throwOnChange, fieldExpr, currValExpr>>)
      condition == IF evalResult.forceUpdate # JsNull
                   THEN or(evalResult.forceUpdate, check)
                   ELSE check
  IN  IF evalResult = NoEvalResult
      THEN ev.view
      ELSE addStmt(v1, method,
                   IfStmt(condition,
                          actions \o <<toStmt(writeProp(THIS_EXPR, fieldExpr.name,
                                                        currValExpr))>>))

bind(v, currValExpr, fieldExpr, parsedExpression, actions, method, bindingIndex) ==
  LET ev == evalCdAst(v, currValExpr, parsedExpression, method, bindingIndex)
      evalResult == ev.result
      v1 == [ev.view EXCEPT !.fields = Append(@, ClassField(fieldExpr.name, {"Private"}))]
      v2 == addStmt(v1, "createMethod",
                    toStmt(writeProp(THIS_EXPR, fieldExpr.name, UNINITIALIZED)))
      check == callFn(checkBinding, <<throwOnChange, fieldExpr, currValExpr>>)
      condition == IF evalResult.forceUpdate # JsNull
                   THEN or(evalResult.forceUpdate, check)
                   ELSE check
  IN  IF evalResult = NoEvalResult
      THEN ev.view
      ELSE addStmt(v2, method,
                   IfStmt(condition,
                          actions \o <<toStmt(writeProp(THIS_EXPR, fieldExpr.name,
                                                        currValExpr))>>))

\* bindRenderText with the binding index read after the push
bindRenderText_indexAfterPush(v, boundText) ==
  LET v1 == [v EXCEPT !.bindings = Append(@, CompileBinding(0, boundText)),
                      !.slots = Append(@, Len(v.bindings) + 1)]
      bindingIndex == Len(v1.bindings)
      currValExpr == createCurrValueExpr(bindingIndex)
      valueField == createBindFieldExpr(bindingIndex)
  IN  bind(v1, currValExpr, valueField, boundText.value,
           <<toStmt(callMethod(prop(THIS_EXPR, "renderer"), "setText",
                               <<renderNode, currValExpr>>))>>,
           "detectChangesRenderPropertiesMethod", bindingIndex)

bindRenderText(v, boundText) ==
  LET bindingIndex == Len(v.bindings)
      v1 == [v EXCEPT !.bindings = Append(@, CompileBinding(0, boundText)),
                      !.slots = Append(@, bindingIndex)]
      currValExpr == createCurrValueExpr(bindingIndex)
      valueField == createBindFieldExpr(bindingIndex)
  IN  bind(v1, currValExpr, valueField, boundText.value,
           <<toStmt(callMethod(prop(THIS_EXPR, "renderer"), "setText",
                               <<renderNode, currValExpr>>))>>,
           "detectChangesRenderPropertiesMethod", bindingIndex)

Throw(message) == [throw |-> message]

\* sanitizedValue with SCRIPT sanitized as STYLE
sanitizedValue_scriptAsStyle(boundProp, renderValue) ==
  LET securityContext == boundProp.securityContext
      enumValue == IF securityContext = "SCRIPT" THEN "STYLE" ELSE securityContext
      ctx == prop(viewUtils, "sanitizer")
      args == <<prop(SecurityContextId, enumValue), renderValue>>
  IN  IF securityContext = "NONE" THEN renderValue
      ELSE IF securityContext \in {"HTML", "STYLE", "SCRIPT", "URL", "RESOURCE_URL"}
      THEN callMethod(ctx, "sanitize", args)
      ELSE Throw("internal error, unexpected SecurityContext " \o securityContext \o ".")

sanitizedValue(boundProp, renderValue) ==
  LET securityContext == boundProp.securityContext
      enumValue == securityContext
      ctx == prop(viewUtils, "sanitizer")
      args == <<prop(SecurityContextId, enumValue), renderValue>>
  IN  IF securityContext = "NONE" THEN renderValue
      ELSE IF securityContext \in {"HTML", "STYLE", "SCRIPT", "URL", "RESOURCE_URL"}
      THEN callMethod(ctx, "sanitize", args)
      ELSE Throw("internal error, unexpected SecurityContext " \o securityContext \o ".")

logBindingUpdateStmt(node, propName, value) ==
  toStmt(callFn(setBindingDebugInfo,
                <<prop(THIS_EXPR, "renderer"), node, literal(propName), value>>))

rendererCall(methodName, boundProp, renderValue) ==
  toStmt(callMethod(prop(THIS_EXPR, "renderer"), methodName,
                    <<renderNode, literal(boundProp.name), renderValue>>))

\* the animation function's arguments on the update path
animationUpdateArgs(oldRenderValue, renderValue) ==
  <<THIS_EXPR, renderNode,
    conditional(equals(oldRenderValue, UNINITIALIZED),
                literal(EMPTY_ANIMATION_STATE), oldRenderValue),
    conditional(equals(renderValue, UNINITIALIZED),
                literal(EMPTY_ANIMATION_STATE), renderValue)>>

\* the detach path handed the fresh value as the state to go to
animationDetachArgs_fresh(oldRenderValue, renderValue) ==
  <<THIS_EXPR, renderNode, oldRenderValue, renderValue>>

\* the animation function's arguments on the detach path
animationDetachArgs(oldRenderValue, renderValue) ==
  <<THIS_EXPR, renderNode, oldRenderValue, literal(EMPTY_ANIMATION_STATE)>>

\* the method the guard of a bound property goes to
compileMethodOf(boundProp) ==
  IF boundProp.type = "Animation" THEN "animationBindingsMethod"
  ELSE "detectChangesRenderPropertiesMethod"

\* case Animation of the switch: the update and the detach statements
animationStmts(boundProp, oldRenderValue, renderValue, isHostProp, listeners) ==
  LET animationName == boundProp.name
      targetViewExpr == IF isHostProp THEN prop(appElement, "componentView")
                        ELSE THIS_EXPR
      animationFnExpr == key(prop(prop(targetViewExpr, "componentType"), "animations"),
                             literal(animationName))
      animationTransitionVar == variable("animationTransition_" \o animationName)
      matching == SelectSeq(listeners,
                            LAMBDA l : l.isAnimation /\ l.eventName = animationName)
      animationStmt == [i \in 1..Len(matching) |->
                          listenToAnimation(matching[i], animationTransitionVar)]
  IN  [updateStmts |->
         <<toDeclStmt(animationTransitionVar.name,
                      callFn(animationFnExpr,
                             animationUpdateArgs(oldRenderValue, renderValue)), {})>>
         \o animationStmt,
       detachStmts |->
         <<toDeclStmt(animationTransitionVar.name,
                      callFn(animationFnExpr,
                             animationDetachArgs(oldRenderValue, renderValue)), {})>>
         \o animationStmt]

\* the switch over boundProp.type: the update and the detach statements
renderStmts(v, boundProp, oldRenderValue, renderValue, isHostProp, listeners) ==
  CASE boundProp.type = "Property" ->
         [updateStmts |->
            (IF v.genConfig.logBindingUpdate
             THEN <<logBindingUpdateStmt(renderNode, boundProp.name, renderValue)>>
             ELSE <<>>)
            \o <<rendererCall("setElementProperty", boundProp, renderValue)>>,
          detachStmts |-> <<>>]
    [] boundProp.type = "Attribute" ->
         [updateStmts |->
            <<rendererCall("setElementAttribute", boundProp,
                           conditional(isBlank(renderValue), NULL_EXPR,
                                       callMethod(renderValue, "toString", <<>>)))>>,
          detachStmts |-> <<>>]
    [] boundProp.type = "Class" ->
         [updateStmts |-> <<rendererCall("setElementClass", boundProp, renderValue)>>,
          detachStmts |-> <<>>]
    [] boundProp.type = "Style" ->
         LET str == callMethod(renderValue, "toString", <<>>)
             strValue == IF boundProp.unit # <<>>
                         THEN plus(str, literal(boundProp.unit[1]))
                         ELSE str
         IN  [updateStmts |->
                <<rendererCall("setElementStyle", boundProp,
                               conditional(isBlank(renderValue), NULL_EXPR, strValue))>>,
              detachStmts |-> <<>>]
    [] boundProp.type = "Animation" ->
         animationStmts(boundProp, oldRenderValue, renderValue, isHostProp,
                        listeners)

\* the index bindAndWriteToRenderer hands to bind, read after the push
bindIndexArg(v) == Len(v.bindings)

\* one round of bindAndWriteToRenderer's forEach; st is the view and the
\* error thrown so far
bindBoundProp(st, boundProp, isHostProp, listeners) ==
  LET v == st.view
      bindingIndex == Len(v.bindings)
      v1 == [v EXCEPT !.bindings = Append(@, CompileBinding(0, boundProp)),
                      !.slots = Append(@, bindingIndex)]
      fieldExpr == createBindFieldExpr(bindingIndex)
      currValExpr == createCurrValueExpr(bindingIndex)
      oldRenderValue == sanitizedValue(boundProp, fieldExpr)
      renderValue == sanitizedValue(boundProp, currValExpr)
      stmts == renderStmts(v1, boundProp, oldRenderValue, renderValue, isHostProp,
                           listeners)
      v2 == addStmts(v1, "detachMethod", stmts.detachStmts)
  IN  IF "throw" \in DOMAIN oldRenderValue
      THEN [view |-> v1, thrown |-> oldRenderValue.throw]
      ELSE [view |-> bind(v2, currValExpr, fieldExpr, boundProp.value,
                          stmts.updateStmts, compileMethodOf(boundProp),
                          bindIndexArg(v2)),
            thrown |-> ""]

RECURSIVE forEachBoundProp(_, _, _, _, _)
forEachBoundProp(st, boundProps, i, isHostProp, listeners) ==
  IF i > Len(boundProps) \/ st.thrown # "" THEN st
  ELSE forEachBoundProp(bindBoundProp(st, boundProps[i], isHostProp, listeners),
                        boundProps, i + 1, isHostProp, listeners)

bindAndWriteToRenderer(v, boundProps, isHostProp, listeners) ==
  forEachBoundProp([view |-> v, thrown |-> ""], boundProps, 1, isHostProp,
                   listeners)

bindRenderInputs(v, boundProps, listeners) ==
  bindAndWriteToRenderer(v, boundProps, FALSE, listeners)

bindDirectiveHostProps(v, directiveAst, listeners) ==
  bindAndWriteToRenderer(v, directiveAst.hostProperties, TRUE, listeners)

\* the check call with the forced update never passed on
checkInputStmt_noForce(directiveWrapperInstance, input, currValExpr, evalResult) ==
  toStmt(callMethod(directiveWrapperInstance, "check_" \o input.directiveName,
                    <<currValExpr, throwOnChange, literal("false")>>))

\* the call into the wrapper's per-input check method
checkInputStmt(directiveWrapperInstance, input, currValExpr, evalResult) ==
  toStmt(callMethod(directiveWrapperInstance, "check_" \o input.directiveName,
                    <<currValExpr, throwOnChange,
                      IF evalResult.forceUpdate # JsNull THEN evalResult.forceUpdate
                      ELSE literal("false")>>))

\* one round of bindDirectiveInputs' forEach
bindInput(v, input, directiveWrapperInstance) ==
  LET bindingIndex == Len(v.bindings)
      v1 == [v EXCEPT !.bindings = Append(@, CompileBinding(0, input)),
                      !.slots = Append(@, bindingIndex)]
      currValExpr == createCurrValueExpr(bindingIndex)
      ev == evalCdAst(v1, currValExpr, input.value, "detectChangesInInputsMethod",
                      bindingIndex)
  IN  IF ev.result = NoEvalResult THEN ev.view
      ELSE addStmt(ev.view, "detectChangesInInputsMethod",
                   checkInputStmt(directiveWrapperInstance, input, currValExpr,
                                  ev.result))

RECURSIVE forEachInput(_, _, _, _)
forEachInput(v, inputs, i, directiveWrapperInstance) ==
  IF i > Len(inputs) THEN v
  ELSE forEachInput(bindInput(v, inputs[i], directiveWrapperInstance), inputs, i + 1,
                    directiveWrapperInstance)

\* the statement with isComponent left out of the test
directiveDetectChangesStmt_anyOnPush(directiveAst, directiveWrapperInstance) ==
  LET isOnPushComp == ~isDefaultChangeDetectionStrategy(directiveAst.changeDetection)
      directiveDetectChangesExpr ==
        callMethod(directiveWrapperInstance, "detectChangesInternal",
                   <<THIS_EXPR, renderNode, throwOnChange>>)
  IN  IF isOnPushComp
      THEN IfStmt(directiveDetectChangesExpr,
                  <<toStmt(callMethod(prop(appElement, "componentView"),
                                      "markAsCheckOnce", <<>>))>>)
      ELSE toStmt(directiveDetectChangesExpr)

directiveDetectChangesStmt(directiveAst, directiveWrapperInstance) ==
  LET isOnPushComp == directiveAst.isComponent
                      /\ ~isDefaultChangeDetectionStrategy(directiveAst.changeDetection)
      directiveDetectChangesExpr ==
        callMethod(directiveWrapperInstance, "detectChangesInternal",
                   <<THIS_EXPR, renderNode, throwOnChange>>)
  IN  IF isOnPushComp
      THEN IfStmt(directiveDetectChangesExpr,
                  <<toStmt(callMethod(prop(appElement, "componentView"),
                                      "markAsCheckOnce", <<>>))>>)
      ELSE toStmt(directiveDetectChangesExpr)

bindDirectiveInputs(v, directiveAst, directiveWrapperInstance) ==
  addStmt(forEachInput(v, directiveAst.inputs, 1, directiveWrapperInstance),
          "detectChangesInInputsMethod",
          directiveDetectChangesStmt(directiveAst, directiveWrapperInstance))

(* ------------------------------ actions ------------------------------- *)

EmptyView(logBindingUpdate) ==
  [bindings |-> <<>>, fields |-> <<>>, createMethod |-> <<>>,
   detectChangesRenderPropertiesMethod |-> <<>>,
   animationBindingsMethod |-> <<>>, detachMethod |-> <<>>,
   detectChangesInInputsMethod |-> <<>>,
   genConfig |-> [logBindingUpdate |-> logBindingUpdate],
   slots |-> <<>>]

Init ==
  /\ \E logBindingUpdate \in BOOLEAN : view = EmptyView(logBindingUpdate)
  /\ thrown = ""
  /\ directives = <<>>

directiveWrapperInstance == prop(THIS_EXPR, "_wrapper_0")

HasNoInputs(directiveAst) == directiveAst.inputs = <<>>

\* bindDirectiveInputs calls made so far for a directive without inputs
DirectivesBound == Len(SelectSeq(directives, HasNoInputs))

\* registrations the bound still leaves room for
Room == MaxRegistrations - Len(view.bindings) - DirectivesBound

BindRenderText ==
  /\ thrown = ""
  /\ Room >= 1
  /\ \E boundText \in BoundTextAsts : view' = bindRenderText(view, boundText)
  /\ UNCHANGED <<thrown, directives>>

BindRenderInputs ==
  /\ thrown = ""
  /\ \E boundProps \in SeqsUpTo(BoundElementPropertyAsts, Room) :
       LET st == bindRenderInputs(view, boundProps, eventListeners)
       IN  view' = st.view /\ thrown' = st.thrown
  /\ UNCHANGED directives

BindDirectiveHostProps ==
  /\ thrown = ""
  /\ \E directiveAst \in HostDirectiveAsts(Room) :
       LET st == bindDirectiveHostProps(view, directiveAst, eventListeners)
       IN  view' = st.view /\ thrown' = st.thrown
  /\ UNCHANGED directives

BindDirectiveInputs ==
  /\ thrown = ""
  /\ Room >= 1
  /\ \E directiveAst \in DirectiveAsts(Room) :
       /\ view' = bindDirectiveInputs(view, directiveAst, directiveWrapperInstance)
       /\ directives' = Append(directives, directiveAst)
  /\ UNCHANGED thrown

Next ==
  \/ BindRenderText
  \/ BindRenderInputs
  \/ BindDirectiveHostProps
  \/ BindDirectiveInputs

Spec == Init /\ [][Next]_vars

(* --------------------- reading the generated view -------------------- *)

NumBindings == Len(view.bindings)

Ast(k) == view.bindings[k].sourceAst

\* evalCdAst ran for the k-th binding: every binding but the one whose
\* sanitizer selection threw
Evaluated(k) == ~(thrown # "" /\ k = NumBindings)

Present(k) == Evaluated(k) /\ ~Ast(k).value.empty

Absent(k) == Evaluated(k) /\ Ast(k).value.empty

IsRender(k) == Ast(k).kind \in {"text", "prop"}

IsAnimation(k) == Ast(k).kind = "prop" /\ Ast(k).type = "Animation"

\* the method the statements of the k-th binding are meant for
TargetMethod(k) ==
  IF Ast(k).kind = "input" THEN "detectChangesInInputsMethod"
  ELSE IF IsAnimation(k) THEN "animationBindingsMethod"
  ELSE "detectChangesRenderPropertiesMethod"

FieldName(n) == "_expr_" \o ToString(n)

CurrName(n) == "currVal_" \o ToString(n)

FieldRef(n) == [op |-> "ReadProp", receiver |-> THIS_EXPR, name |-> FieldName(n)]

CurrRef(n) == [op |-> "ReadVar", name |-> CurrName(n)]

\* the methods a guard may be appended to
GuardMethods == {"detectChangesRenderPropertiesMethod", "animationBindingsMethod"}

\* the methods the binder appends conditionals or initialisations to, the
\* inputs method aside
RenderMethods == GuardMethods \cup {"createMethod", "detachMethod"}

AllMethods == RenderMethods \cup {"detectChangesInInputsMethod"}

IsIf(s) == s.stmt = "If"

\* the checkBinding call of a guard, under the forced-update disjunct if any
GuardCheck(s) == IF s.condition.op = "Binary" THEN s.condition.rhs ELSE s.condition

\* the name of the cached field a guard compares and writes
GuardField(s) == GuardCheck(s).args[2].name

Guards(method) == SelectSeq(view[method], IsIf)

IsCurrDecl(s) == s.stmt = "DeclareVar" /\ s.value.op = "Ir"

Count(seq, Test(_)) == Len(SelectSeq(seq, Test))

RECURSIVE Sum(_, _)
Sum(f, S) == IF S = {} THEN 0
             ELSE LET x == CHOOSE y \in S : TRUE IN f[x] + Sum(f, S \ {x})

\* the bindings that satisfy Test, in registration order
Ks(Test(_)) == SelectSeq([k \in 1..NumBindings |-> k], Test)

PresentRender(k) == IsRender(k) /\ Present(k)

(* ------------------------------- claims ------------------------------- *)

\* C1: a text or render-property binding whose evaluation is absent adds no
\* field to view.fields and no if-statement to the create, render-properties,
\* animation-bindings or detach method: the fields and the if-statements
\* there are as many as the bindings whose evaluation is present, and none
\* of them is for the slot of an absent binding.
C1_AbsentEmitsNothing ==
  /\ Len(view.fields) = Len(Ks(PresentRender))
  /\ Sum([m \in RenderMethods |-> Count(view[m], IsIf)], RenderMethods)
       = Len(Ks(PresentRender))
  /\ \A k \in 1..NumBindings :
       IsRender(k) /\ Absent(k) =>
         /\ \A i \in 1..Len(view.fields) : view.fields[i].name # FieldName(k - 1)
         /\ \A m \in RenderMethods : \A i \in 1..Len(view[m]) :
              IsIf(view[m][i]) => GuardField(view[m][i]) # FieldName(k - 1)

\* an absent render-property binding registered before a present text binding
C1_Witness ==
  /\ NumBindings = 2
  /\ Ast(1).kind = "prop" /\ Absent(1)
  /\ Ast(2).kind = "text" /\ Present(2)
  /\ Len(view.fields) = 1

\* C2: a text or render-property binding whose evaluation is present has
\* exactly one private field, exactly one statement in the create method that
\* sets the field to UNINITIALIZED and exactly one guard, in its target
\* method; the guards of a method are in registration order.
C2_PresentEmitsOnce ==
  /\ \A k \in 1..NumBindings :
       PresentRender(k) =>
         LET IsField(f) == f.name = FieldName(k - 1)
             IsInit(s) == s = [stmt |-> "Expression",
                               expr |-> [op |-> "WriteProp", receiver |-> THIS_EXPR,
                                         name |-> FieldName(k - 1),
                                         value |-> UNINITIALIZED]]
             IsWrite(s) == s.stmt = "Expression" /\ s.expr.op = "WriteProp"
                           /\ s.expr.name = FieldName(k - 1)
             IsGuard(s) == IsIf(s) /\ GuardField(s) = FieldName(k - 1)
         IN  /\ Count(view.fields, IsField) = 1
             /\ \A i \in 1..Len(view.fields) :
                  IsField(view.fields[i]) => view.fields[i].modifiers = {"Private"}
             /\ Count(view.createMethod, IsInit) = 1
             /\ Count(view.createMethod, IsWrite) = 1
             /\ \A m \in GuardMethods :
                  Count(view[m], IsGuard) = IF m = TargetMethod(k) THEN 1 ELSE 0
  /\ \A m \in GuardMethods :
       LET InM(k) == PresentRender(k) /\ TargetMethod(k) = m
           ks == Ks(InM)
           gs == Guards(m)
       IN  [i \in 1..Len(gs) |-> GuardField(gs[i])]
             = [i \in 1..Len(ks) |-> FieldName(ks[i] - 1)]

\* two present bindings with their guards in the same method
C2_Witness ==
  /\ NumBindings = 2
  /\ PresentRender(1) /\ PresentRender(2)
  /\ Ast(1).kind = "text" /\ Ast(2).kind = "prop"
  /\ Len(Guards("detectChangesRenderPropertiesMethod")) = 2
  /\ Len(view.createMethod) = 2

\* C3: the k-th binding registered on the view, of whatever kind and whether
\* or not its evaluation is absent, gets slot k-1, and view.bindings holds one
\* record per binding: the slots handed out are 0, 1, 2, ... and the fresh
\* values and cached fields emitted are named by them.
C3_SlotsSequential ==
  /\ Len(view.slots) = NumBindings
  /\ \A k \in 1..NumBindings : view.slots[k] = k - 1
  /\ \A k \in 1..NumBindings :
       Present(k) =>
         LET IsDecl(s) == s.stmt = "DeclareVar" /\ s.name = CurrName(k - 1)
         IN  \A m \in AllMethods :
               Count(view[m], IsDecl) = IF m = TargetMethod(k) THEN 1 ELSE 0
  /\ LET ks == Ks(PresentRender)
     IN  [i \in 1..Len(view.fields) |-> view.fields[i].name]
           = [i \in 1..Len(ks) |-> FieldName(ks[i] - 1)]
  /\ Sum([m \in AllMethods |-> Count(view[m], IsCurrDecl)], AllMethods)
       = Len(Ks(Present))

\* a directive input with an absent evaluation registered before a text binding
C3_Witness ==
  /\ NumBindings = 2
  /\ Ast(1).kind = "input" /\ Absent(1)
  /\ Ast(2).kind = "text" /\ Present(2)
  /\ view.fields[1].name = "_expr_1"

\* the first fresh-value declaration of a method after position p
NextCurrDecl(method, p) ==
  LET later == {i \in p + 1..Len(view[method]) : IsCurrDecl(view[method][i])}
  IN  view[method][CHOOSE i \in later : \A j \in later : i <= j]

\* C4: the cached field, the fresh-value variable and the evaluation
\* statements of a binding (the lowered expression and the temporaries, named
\* from the bindingIndex given to evalCdAst) all carry the slot the binding
\* was registered under.
C4_SameSlotEverywhere ==
  \A m \in AllMethods : \A p \in 1..Len(view[m]) :
    LET s == view[m][p]
    IN  /\ s.stmt = "TemporaryDeclaration" =>
             NextCurrDecl(m, p).name = CurrName(s.bindingIndex)
        /\ (IsIf(s) /\ m \in GuardMethods) =>
             \E n \in 0..NumBindings - 1 :
               /\ GuardCheck(s).args[2] = FieldRef(n)
               /\ GuardCheck(s).args[3] = CurrRef(n)
               /\ view[m][p - 1].name = CurrName(n)

\* the guard of the k-th binding, a binding whose evaluation is present
GuardOf(k) ==
  LET m == TargetMethod(k)
      p == CHOOSE i \in 1..Len(view[m]) :
             IsIf(view[m][i]) /\ GuardField(view[m][i]) = FieldName(k - 1)
  IN  view[m][p]

\* the binding a guard belongs to
BindingOfGuard(s) == CHOOSE k \in 1..NumBindings : FieldName(k - 1) = GuardField(s)

ResetStmt ==
  [stmt |-> "Expression",
   expr |-> [op |-> "InvokeMethod", receiver |-> valUnwrapper, name |-> "reset",
             args |-> <<>>]]

\* C5: in the target method, the statements of a binding whose evaluation is
\* present are, in this order and with nothing between them, one declaration
\* per temporary, the reset of the value unwrapper if unwrapping is needed,
\* the final declaration of the fresh value and the guard.
C5_StatementOrder ==
  \A m \in GuardMethods :
    /\ Len(view[m]) > 0 => IsIf(view[m][Len(view[m])])
    /\ \A p \in 1..Len(view[m]) :
         IsIf(view[m][p]) =>
           LET k == BindingOfGuard(view[m][p])
               t == Ast(k).value.temporaryCount
               u == IF Ast(k).value.needsValueUnwrapper THEN 1 ELSE 0
               start == p - 1 - u - t
           IN  /\ start >= 1
               /\ start = 1 \/ IsIf(view[m][start - 1])
               /\ \A i \in 0..t - 1 :
                    /\ view[m][start + i].stmt = "TemporaryDeclaration"
                    /\ view[m][start + i].temporaryNumber = i
               /\ u = 1 => view[m][p - 2] = ResetStmt
               /\ view[m][p - 1].stmt = "DeclareVar"
               /\ view[m][p - 1].name = CurrName(k - 1)
               /\ view[m][p - 1].modifiers = {"Final"}

\* a binding with temporaries and unwrapping right after another binding's
\* guard
C5_Witness ==
  /\ NumBindings = 2
  /\ PresentRender(1) /\ PresentRender(2)
  /\ TargetMethod(1) = TargetMethod(2)
  /\ Ast(2).value.temporaryCount = MaxTemps
  /\ Ast(2).value.needsValueUnwrapper
  /\ Len(view[TargetMethod(2)]) >= MaxTemps + 5

IsDetectChangesCall(e) ==
  /\ e.op = "InvokeMethod"
  /\ e.name = "detectChangesInternal"

IsDetectChangesStmt(s) ==
  \/ s.stmt = "If" /\ IsDetectChangesCall(s.condition)
  \/ s.stmt = "Expression" /\ IsDetectChangesCall(s.expr)

IsCheckCall(s) ==
  /\ s.stmt = "Expression"
  /\ s.expr.op = "InvokeMethod"
  /\ s.expr.name = "check_value"

DetectChangesCall ==
  [op |-> "InvokeMethod", receiver |-> directiveWrapperInstance,
   name |-> "detectChangesInternal",
   args |-> <<THIS_EXPR, renderNode, throwOnChange>>]

MarkAsCheckOnceStmt ==
  [stmt |-> "Expression",
   expr |-> [op |-> "InvokeMethod",
             receiver |-> [op |-> "ReadProp", receiver |-> appElement,
                           name |-> "componentView"],
             name |-> "markAsCheckOnce", args |-> <<>>]]

IsPresentInput(input) == ~input.value.empty

\* C6: every bindDirectiveInputs call appends one detectChangesInternal(this,
\* renderNode, throwOnChange) invocation to the inputs method, after the check
\* calls of the directive's inputs: as the condition of an if-statement whose
\* body is the one markAsCheckOnce call when the directive is a component with
\* a non-default strategy, and as a plain statement otherwise.
C6_DetectChangesCall ==
  LET dci == view.detectChangesInInputsMethod
      pos == SelectSeq([i \in 1..Len(dci) |-> i],
                       LAMBDA i : IsDetectChangesStmt(dci[i]))
  IN  /\ Len(pos) = Len(directives)
      /\ Len(dci) > 0 => pos[Len(pos)] = Len(dci)
      /\ \A i \in 1..Len(dci) :
           ~(dci[i].stmt = "Expression" /\ dci[i].expr.op = "InvokeMethod"
             /\ dci[i].expr.name = "markAsCheckOnce")
      /\ \A j \in 1..Len(pos) :
           LET d == directives[j]
               s == dci[pos[j]]
               from == IF j = 1 THEN 1 ELSE pos[j - 1] + 1
               between == SubSeq(dci, from, pos[j] - 1)
           IN  /\ Count(between, IsCheckCall) = Count(d.inputs, IsPresentInput)
               /\ IF d.isComponent /\ d.changeDetection # "Default"
                  THEN s = [stmt |-> "If", condition |-> DetectChangesCall,
                            trueCase |-> <<MarkAsCheckOnceStmt>>]
                  ELSE s = [stmt |-> "Expression", expr |-> DetectChangesCall]

\* a push component with a present input
C6_Witness ==
  /\ Len(directives) = 1
  /\ directives[1].isComponent /\ directives[1].changeDetection = "OnPush"
  /\ Len(directives[1].inputs) = 1
  /\ IsPresentInput(directives[1].inputs[1])
  /\ view.detectChangesInInputsMethod[Len(view.detectChangesInInputsMethod)].stmt = "If"

\* the check calls for the directive inputs in view.bindings
InputChecks ==
  LET dci == view.detectChangesInInputsMethod
      IsPresentInputBinding(k) == Ast(k).kind = "input" /\ Present(k)
  IN  /\ Count(dci, IsCheckCall) = Len(Ks(IsPresentInputBinding))
      /\ \A k \in 1..NumBindings :
           Ast(k).kind = "input" =>
             LET OfSlot(s) == IsCheckCall(s) /\ s.expr.args[1] = CurrRef(k - 1)
                 force == IF Ast(k).value.needsValueUnwrapper
                          THEN [op |-> "ReadProp", receiver |-> valUnwrapper,
                                name |-> "hasWrappedValue"]
                          ELSE [op |-> "Literal", value |-> "false"]
                 call == [stmt |-> "Expression",
                          expr |-> [op |-> "InvokeMethod",
                                    receiver |-> directiveWrapperInstance,
                                    name |-> "check_" \o Ast(k).directiveName,
                                    args |-> <<CurrRef(k - 1), throwOnChange, force>>]]
                 IsCall(s) == s = call
             IN  /\ Count(dci, OfSlot) = IF Present(k) THEN 1 ELSE 0
                 /\ Count(dci, IsCall) = IF Present(k) THEN 1 ELSE 0
                 /\ \A i \in 1..Len(view.fields) :
                      view.fields[i].name # FieldName(k - 1)

\* C7: a directive input whose evaluation is present gets exactly one call
\* check_<inputName>(fresh value, throwOnChange, forceUpdate) in the inputs
\* method, forceUpdate being valUnwrapper.hasWrappedValue when unwrapping is
\* needed and the literal false otherwise; an input whose evaluation is absent
\* gets none; and a bindDirectiveInputs call leaves view.fields and the create
\* method as they were.
C7_DirectiveInputs ==
  [][/\ InputChecks'
     /\ directives' # directives =>
          /\ view'.fields = view.fields
          /\ view'.createMethod = view.createMethod
          /\ view'.detectChangesRenderPropertiesMethod
               = view.detectChangesRenderPropertiesMethod]_vars

\* a directive with an unwrapped input bound after a text binding
C7_Witness ==
  /\ NumBindings = 2
  /\ PresentRender(1)
  /\ Ast(2).kind = "input" /\ Present(2) /\ Ast(2).value.needsValueUnwrapper
  /\ Len(directives) = 1
  /\ Len(view.fields) = 1

\* sanitize(SecurityContext.<name>, value) on the sanitizer of the view
\* utilities
SanitizeCall(name, value) ==
  [op |-> "InvokeMethod",
   receiver |-> [op |-> "ReadProp",
                 receiver |-> [op |-> "ReadProp", receiver |-> THIS_EXPR,
                               name |-> "viewUtils"],
                 name |-> "sanitizer"],
   name |-> "sanitize",
   args |-> <<[op |-> "ReadProp",
               receiver |-> [op |-> "External", name |-> "SecurityContext"],
               name |-> name],
              value>>]

\* what the claim says the selector gives for a classification of the
\* enumeration
Sanitized(securityContext, value) ==
  IF securityContext = "NONE" THEN value ELSE SanitizeCall(securityContext, value)

\* the value a guard hands to renderer.setElementProperty
PropertyValueOf(guard) ==
  LET i == CHOOSE j \in 1..Len(guard.trueCase) :
             /\ guard.trueCase[j].stmt = "Expression"
             /\ guard.trueCase[j].expr.op = "InvokeMethod"
             /\ guard.trueCase[j].expr.name = "setElementProperty"
  IN  guard.trueCase[i].expr.args[3]

IsTransitionDecl(s) == s.stmt = "DeclareVar" /\ s.value.op = "InvokeFunction"

\* C8: sanitizedValue gives the value itself for NONE, the call
\* sanitize(SecurityContext.<same name>, value) for HTML, STYLE, SCRIPT, URL
\* and RESOURCE_URL, and for any other classification throws and gives no
\* expression: generation stops at that binding with nothing emitted for it.
C8_SanitizerSelector ==
  /\ \A k \in 1..NumBindings :
       Ast(k).kind = "prop" =>
         LET c == Ast(k).securityContext
             OfSlot(s) == IsTransitionDecl(s) /\ s.value.args[4].op = "Literal"
                          /\ s.value.args[3] = Sanitized(c, FieldRef(k - 1))
         IN  /\ c \notin KnownSecurityContexts =>
                  /\ thrown # "" /\ k = NumBindings
                  /\ Len(view.fields) = Len(Ks(PresentRender))
                  /\ \A m \in AllMethods : \A i \in 1..Len(view[m]) :
                       view[m][i].stmt = "DeclareVar" =>
                         view[m][i].name # CurrName(k - 1)
             /\ c \in KnownSecurityContexts => Evaluated(k)
             /\ (c \in KnownSecurityContexts /\ Ast(k).type = "Property"
                 /\ Present(k)) =>
                  PropertyValueOf(GuardOf(k)) = Sanitized(c, CurrRef(k - 1))
             /\ (c \in KnownSecurityContexts /\ Ast(k).type = "Animation") =>
                  Count(view.detachMethod, OfSlot) = 1
  /\ thrown # "" =>
       /\ NumBindings > 0
       /\ Ast(NumBindings).kind = "prop"
       /\ Ast(NumBindings).securityContext \notin KnownSecurityContexts

\* a sanitized property bound before a property whose classification is
\* outside the enumeration
C8_Witness ==
  /\ NumBindings = 2
  /\ Ast(1).kind = "prop" /\ Ast(1).securityContext = "RESOURCE_URL"
  /\ Ast(2).kind = "prop" /\ Ast(2).securityContext = "UNKNOWN"
  /\ thrown # ""
  /\ Len(Guards("detectChangesRenderPropertiesMethod")) = 1

EmptyState == [op |-> "Literal", value |-> EMPTY_ANIMATION_STATE]

\* a value, replaced by the empty animation state when it is UNINITIALIZED
Normalized(value) ==
  [op |-> "Conditional",
   condition |-> [op |-> "Binary", operator |-> "==", lhs |-> value,
                  rhs |-> UNINITIALIZED],
   trueCase |-> EmptyState, falseCase |-> value]

\* C9: for an Animation binding, the update-path transition is computed from
\* the old (cached, sanitized) and the fresh value, each replaced by the empty
\* animation state when it equals UNINITIALIZED; the detach-path transition
\* in the detach method is computed from (this, render node, old value as it
\* is, empty state) and not from the fresh value; and the guard is in the
\* animation-bindings method, not in the render-properties method.
C9_AnimationBinding ==
  /\ \A k \in 1..NumBindings :
       (IsAnimation(k) /\ Evaluated(k)) =>
         LET old == Sanitized(Ast(k).securityContext, FieldRef(k - 1))
             new == Sanitized(Ast(k).securityContext, CurrRef(k - 1))
             OfSlot(s) == IsTransitionDecl(s)
                          /\ s.value.args = <<THIS_EXPR, renderNode, old, EmptyState>>
             IsGuard(s) == IsIf(s) /\ GuardField(s) = FieldName(k - 1)
         IN  /\ Count(view.detachMethod, OfSlot) = 1
             /\ Count(view.detectChangesRenderPropertiesMethod, IsGuard) = 0
             /\ Count(view.animationBindingsMethod, IsGuard)
                  = IF Present(k) THEN 1 ELSE 0
             /\ Present(k) =>
                  /\ IsTransitionDecl(GuardOf(k).trueCase[1])
                  /\ GuardOf(k).trueCase[1].value.args
                       = <<THIS_EXPR, renderNode, Normalized(old), Normalized(new)>>
  /\ LET IsAnimationEvaluated(k) == IsAnimation(k) /\ Evaluated(k)
     IN  Count(view.detachMethod, IsTransitionDecl) = Len(Ks(IsAnimationEvaluated))
  /\ \A i \in 1..Len(view.animationBindingsMethod) :
       IsIf(view.animationBindingsMethod[i]) =>
         IsAnimation(BindingOfGuard(view.animationBindingsMethod[i]))

\* a sanitized animation binding with its guard, after a property binding
C9_Witness ==
  /\ NumBindings = 2
  /\ Ast(1).kind = "prop" /\ Ast(1).type = "Property" /\ Present(1)
  /\ IsAnimation(2) /\ Present(2) /\ Ast(2).securityContext = "HTML"
  /\ Len(view.detachMethod) = 2
  /\ Len(Guards("animationBindingsMethod")) = 1

\* C10: the temporaries declared in one method have pairwise distinct
\* (bindingIndex, temporaryNumber) names, whatever bindings emitted them.
C10_TemporariesDistinct ==
  \A m \in AllMethods : \A i, j \in 1..Len(view[m]) :
    (i < j /\ view[m][i].stmt = "TemporaryDeclaration"
     /\ view[m][j].stmt = "TemporaryDeclaration") =>
      view[m][i] # view[m][j]

====
